---- MODULE Spec2Model ----
(***************************************************************************)
(* Model of the Auto-Dev orchestration core: the LangGraph workflow        *)
(* architect -> developer -> executor -> reviewer -> {developer,           *)
(* publisher, END} of src/graph/workflow.py, the five node functions of    *)
(* src/nodes/ and run_workflow's exception handler.                        *)
(*                                                                         *)
(* One action models one execution of a node function, from its entry to   *)
(* its return (or to the exception that leaves workflow.invoke).  The      *)
(* answers of the collaborators (git, the LLM, the file system, Docker,    *)
(* the GitHub API) are the inputs of the actions.                          *)
(***************************************************************************)
EXTENDS Integers, Sequences, FiniteSets, TLC

\* Largest configured value of config.MAX_RETRY_ATTEMPTS that is explored.
MaxAttemptsBound == 3

\* Largest number of entries of the "changes" list of one change-set.
MaxChanges == 2

\* Largest attempt_count / error_history length of the states handed to
\* reviewer_node when it is checked on its own (RouterSpec).
MaxRouterCount == 4

\* Largest number of lines of the transcripts handed to
\* _extract_error_summary when it is checked on its own (SummarySpec).
MaxLines == 4

VARIABLES
    MAX_RETRY_ATTEMPTS,  \* config.MAX_RETRY_ATTEMPTS, fixed for a run
    state,               \* the AgentState threaded through the graph
    pc,                  \* the node the compiled graph executes next
    trace                \* the node executions so far, in order

vars == <<MAX_RETRY_ATTEMPTS, state, pc, trace>>

None == "None"

\* The docker exit codes that are told apart: pass, failure, another failure
\* code, and the -1 that DockerSandbox.execute reports for a timeout.
ExitCodes == {0, 1, 2, -1}

----------------------------------------------------------------------------
(* error_history entries.  An entry is the f-string the code builds; the   *)
(* text before the colon is `kind`, the attempt number of the reviewer's   *)
(* entries is `n`, and `summary` is what follows (the lines joined by      *)
(* " | " in the reviewer's retry entry).                                   *)

Entry(kind, n, summary) == [kind |-> kind, n |-> n, summary |-> summary]

CloneFailed       == Entry("Clone failed", 0, <<>>)
FileScanFailed    == Entry("File scan failed", 0, <<>>)
LLMAnalysisFailed == Entry("LLM analysis failed", 0, <<>>)
DevParseFailed    == Entry("Developer JSON parse failed", 0, <<>>)
DevLLMFailed      == Entry("Developer LLM failed", 0, <<>>)
WriteFailed       == Entry("Write failed for", 0, <<>>)
PublisherNoPath   == Entry("Publisher: No local path in state", 0, <<>>)
PushFailed        == Entry("Push failed", 0, <<>>)
PRCreationFailed  == Entry("PR creation failed", 0, <<>>)
CriticalError     == Entry("Critical error", 0, <<>>)
AttemptEntry(n, summary) == Entry("Attempt", n, summary)
MaxRetriesExceeded(n)    == Entry("Attempt", n, <<"Max retries exceeded">>)

\* One executed node: its name and how the execution ended.
\*   "raised"    the node let an exception escape
\*   "returned"  architect, reviewer, publisher: the node returned
\*   "applied" / "gave up"   developer: the change-set was applied / the
\*               generation failed (LLM error or no change-set extracted)
\*   "passed" / "failed"     executor: test_exit_code is 0 / is not 0
Ev(node, how) == [node |-> node, how |-> how]

\* A string that is read line by line (test_output) is the sequence of its
\* lines, str.split("\n"): the empty string is one empty line.
EmptyString == <<"">>

----------------------------------------------------------------------------
(* state/schema.py                                                         *)

\* The fields of AgentState that the nodes branch on or that carry results.
\* repo_url, branch_name, user_request, file_map, relevant_files,
\* file_contents, plan, current_step and messages only feed prompts and
\* messages and are left out.
create_initial_state ==
    [ status         |-> "initialized",
      local_path     |-> "",
      attempt_count  |-> 0,
      error_history  |-> <<>>,
      test_exit_code |-> -1,
      test_output    |-> EmptyString,
      changes_made   |-> <<>>,
      pr_url         |-> None ]

Statuses == {"initialized", "analyzing", "developing", "testing",
             "publishing", "completed", "failed"}

\* The directory clone_repo clones into.
Workspace == "workspace/repo"

----------------------------------------------------------------------------
(* nodes/architect.py                                                      *)

\* What the collaborators answer during one architect_node call.
\*   clone    clone_repo(...).success
\*   branch   checkout_branch(...)[0]; the code ignores it
\*   scan     "ok" or "raise" of list_files
\*   get_llm  "ok" or "raise" of the ChatGroq constructor (outside any try)
\*   llm      "ok", "badjson" (JSONDecodeError, heuristic fallback) or
\*            "raise" (caught: recorded, fallback plan)
ArchitectEnv ==
    [clone : {FALSE}, branch : {FALSE}, scan : {"ok"}, get_llm : {"ok"}, llm : {"ok"}]
    \cup [clone : {TRUE}, branch : BOOLEAN, scan : {"raise"}, get_llm : {"ok"}, llm : {"ok"}]
    \cup [clone : {TRUE}, branch : BOOLEAN, scan : {"ok"}, get_llm : {"raise"}, llm : {"ok"}]
    \cup [clone : {TRUE}, branch : BOOLEAN, scan : {"ok"}, get_llm : {"ok"},
          llm : {"ok", "badjson", "raise"}]

\* architect_node lets the exception of get_llm() escape.
architect_raises(env) ==
    env.clone /\ env.scan = "ok" /\ env.get_llm = "raise"

architect_node(s, env) ==
    LET s1 == [s EXCEPT !.status = "analyzing"] IN
    IF ~env.clone
    THEN [s1 EXCEPT !.error_history = Append(@, CloneFailed),
                    !.status = "failed"]
    ELSE LET s2 == [s1 EXCEPT !.local_path = Workspace] IN
         IF env.scan = "raise"
         THEN [s2 EXCEPT !.error_history = Append(@, FileScanFailed),
                         !.status = "failed"]
         ELSE LET s3 == IF env.llm = "raise"
                        THEN [s2 EXCEPT !.error_history = Append(@, LLMAnalysisFailed)]
                        ELSE s2
              IN  [s3 EXCEPT !.status = "developing"]

----------------------------------------------------------------------------
(* nodes/developer.py                                                      *)

\* The outcome of one write_file call of the apply loop: written, raised,
\* or skipped by `if not file_path or not content: continue`.
WriteOutcomes == {"ok", "raise", "skip"}

RECURSIVE SeqsUpTo(_, _)
SeqsUpTo(S, n) ==
    IF n = 0 THEN {<<>>}
    ELSE LET shorter == SeqsUpTo(S, n - 1)
         IN  shorter \cup {Append(q, x) : q \in {r \in shorter : Len(r) = n - 1}, x \in S}

\* What the collaborators answer during one developer_node call.
\*   get_llm    "ok" or "raise" of the ChatGroq constructor (outside the try)
\*   llm        "ok" or "raise" of llm.invoke
\*   payload    how far the response text gets through the parsing layers:
\*              "strict"  json.loads succeeds on the matched text,
\*              "cleanup" only after the line-ending replacement,
\*              "pattern" only the regular expressions find path/content pairs,
\*              "none"    the expressions find no pair (ValueError),
\*              "nojson"  no {...} in the response (ValueError)
\*   writes     the outcome of write_file for each entry of "changes"
\*   test_file  "none" (absent or incomplete), "ok" or "raise" of its write
\*   shape      "bad": after the entries of `writes` the list holds an entry
\*              that is not an object, so change.get raises AttributeError
DeveloperEnv ==
    [get_llm : {"raise"}, llm : {"ok"}, payload : {"strict"}, writes : {<<>>},
     test_file : {"none"}, shape : {"ok"}]
    \cup [get_llm : {"ok"}, llm : {"raise"}, payload : {"strict"}, writes : {<<>>},
          test_file : {"none"}, shape : {"ok"}]
    \cup [get_llm : {"ok"}, llm : {"ok"}, payload : {"none", "nojson"}, writes : {<<>>},
          test_file : {"none"}, shape : {"ok"}]
    \cup [get_llm : {"ok"}, llm : {"ok"}, payload : {"strict", "cleanup"},
          writes : SeqsUpTo(WriteOutcomes, MaxChanges),
          test_file : {"none", "ok", "raise"}, shape : {"ok"}]
    \cup [get_llm : {"ok"}, llm : {"ok"}, payload : {"strict", "cleanup"},
          writes : SeqsUpTo(WriteOutcomes, MaxChanges),
          test_file : {"none"}, shape : {"bad"}]
    \cup [get_llm : {"ok"}, llm : {"ok"}, payload : {"pattern"},
          writes : SeqsUpTo(WriteOutcomes, MaxChanges) \ {<<>>},
          test_file : {"none"}, shape : {"ok"}]

\* What the parsing layers of lines 146-205 find in one response text.
\*   json_match  re.search(r'\{[\s\S]*\}', response_text) matches
\*   strict      json.loads succeeds on the matched text
\*   cleaned     json.loads succeeds after the line-ending replacement
\*   pairs       the number of file_path matches that have a content match
Responses ==
    [json_match : {FALSE}, strict : {FALSE}, cleaned : {FALSE}, pairs : {0}]
    \cup [json_match : {TRUE}, strict : BOOLEAN, cleaned : BOOLEAN, pairs : 0..MaxChanges]

\* The parsing layers with the pattern extraction tried first.
parse_layers_pattern_first(resp) ==
    IF ~resp.json_match
    THEN [tried |-> <<>>, payload |-> "nojson"]
    ELSE IF resp.pairs > 0
    THEN [tried |-> <<"pattern">>, payload |-> "pattern"]
    ELSE IF resp.strict
    THEN [tried |-> <<"pattern", "strict">>, payload |-> "strict"]
    ELSE IF resp.cleaned
    THEN [tried |-> <<"pattern", "strict", "cleanup">>, payload |-> "cleanup"]
    ELSE [tried |-> <<"pattern", "strict", "cleanup">>, payload |-> "none"]

\* The nested try blocks of lines 146-205: the layers that run on a
\* response, in the order they run, and how far the response gets (the
\* `payload` of DeveloperEnv).
parse_layers(resp) ==
    IF ~resp.json_match
    THEN [tried |-> <<>>, payload |-> "nojson"]
    ELSE IF resp.strict
    THEN [tried |-> <<"strict">>, payload |-> "strict"]
    ELSE IF resp.cleaned
    THEN [tried |-> <<"strict", "cleanup">>, payload |-> "cleanup"]
    ELSE IF resp.pairs > 0
    THEN [tried |-> <<"strict", "cleanup", "pattern">>, payload |-> "pattern"]
    ELSE [tried |-> <<"strict", "cleanup", "pattern">>, payload |-> "none"]

\* The change-sets the runs of the workflow are explored with: no test file
\* and well-shaped entries.
RunDeveloperEnv ==
    {env \in DeveloperEnv :
        env.test_file = "none" /\ env.shape = "ok" /\ Len(env.writes) <= 1}

\* developer_node lets the exception of get_llm() escape.
developer_raises(env) == env.get_llm = "raise"

\* The three parsing layers of lines 146-205: TRUE when they yield a result
\* dictionary, FALSE when they end in ValueError.
parse_succeeds(payload) == payload \in {"strict", "cleanup", "pattern"}

\* The generation produced a change-set and every entry of it was processed:
\* developer_node reaches line 289.
developer_applies(env) ==
    env.llm = "ok" /\ parse_succeeds(env.payload) /\ env.shape = "ok"

\* The error_history entries of the apply loop, one per failed write.
RECURSIVE write_errors(_)
write_errors(writes) ==
    IF writes = <<>> THEN <<>>
    ELSE (IF Head(writes) = "raise" THEN <<WriteFailed>> ELSE <<>>)
         \o write_errors(Tail(writes))

\* The changes_made entries of the apply loop, one per successful write
\* (the entry is abbreviated to its "action").
RECURSIVE written_changes(_)
written_changes(writes) ==
    IF writes = <<>> THEN <<>>
    ELSE (IF Head(writes) = "ok" THEN <<"modify">> ELSE <<>>)
         \o written_changes(Tail(writes))

\* developer_node whose except branches record the failure without counting
\* an attempt.
developer_node_no_count(s, env) ==
    IF env.llm = "raise"
    THEN [s EXCEPT !.error_history = Append(@, DevLLMFailed)]
    ELSE IF ~parse_succeeds(env.payload)
    THEN [s EXCEPT !.error_history = Append(@, DevParseFailed)]
    ELSE LET applied == [s EXCEPT !.error_history = @ \o write_errors(env.writes)]
             test_made == IF env.payload # "pattern" /\ env.test_file = "ok"
                          THEN <<"create">> ELSE <<>>
         IN  IF env.shape = "bad"
             THEN [applied EXCEPT !.error_history = Append(@, DevLLMFailed)]
             ELSE [applied EXCEPT
                      !.changes_made = @ \o written_changes(env.writes) \o test_made,
                      !.status = "testing"]

developer_node(s, env) ==
    LET attempt == s.attempt_count IN
    IF env.llm = "raise"
    THEN \* except Exception (line 297)
         [s EXCEPT !.error_history = Append(@, DevLLMFailed),
                   !.attempt_count = attempt + 1]
    ELSE IF ~parse_succeeds(env.payload)
    THEN \* except (json.JSONDecodeError, ValueError) (line 215)
         [s EXCEPT !.error_history = Append(@, DevParseFailed),
                   !.attempt_count = attempt + 1]
    ELSE LET applied == [s EXCEPT !.error_history = @ \o write_errors(env.writes)]
             test_made == IF env.payload # "pattern" /\ env.test_file = "ok"
                          THEN <<"create">> ELSE <<>>
         IN  IF env.shape = "bad"
             THEN \* AttributeError in the loop, caught at line 297
                  [applied EXCEPT !.error_history = Append(@, DevLLMFailed),
                                  !.attempt_count = attempt + 1]
             ELSE [applied EXCEPT
                      !.changes_made = @ \o written_changes(env.writes) \o test_made,
                      !.status = "testing"]

----------------------------------------------------------------------------
(* nodes/executor.py                                                       *)

\* stderr-or-stdout of the syntax check, by its exit code (-1: timed out,
\* nothing was printed).
syntax_output(code) ==
    IF code = -1 THEN EmptyString
    ELSE <<"  File a.py, line 1", "SyntaxError: invalid syntax">>

\* stdout of the pytest run, by its exit code.
pytest_stdout(code) ==
    CASE code = 0  -> <<"1 passed">>
      [] code = 1  -> <<"FAILED test_a.py::test_a - AssertionError: assert 1 == 2",
                        "E   assert 1 == 2">>
      [] code = 2  -> <<"ERROR collecting test_a.py">>
      [] OTHER     -> EmptyString

\* stdout of flake8, by its exit code.
lint_stdout(code) ==
    IF code = 0 THEN EmptyString ELSE <<"a.py:1:101: E501 line too long">>

\* What the collaborators answer during one executor_node call.
\*   path_exists  Path(local_path).exists()
\*   docker       "ok"; "unavailable": check_docker_available() is (False, _);
\*                "raise": the try block of lines 56-58 raises
\*   syntax, tests, lint   exit codes of the three sub-steps
\*   exc          the sub-step whose sandbox call raises ("none": no one);
\*                the dependency installation raises where "tests" does
\*   cred         the raised message mentions credentials
ExecutorEnv ==
    [path_exists : {FALSE}, docker : {"ok"}, syntax : {0}, tests : {0}, lint : {0},
     exc : {"none"}, cred : {FALSE}]
    \cup [path_exists : {TRUE}, docker : {"unavailable", "raise"}, syntax : {0},
          tests : {0}, lint : {0}, exc : {"none"}, cred : {FALSE}]
    \cup [path_exists : {TRUE}, docker : {"ok"}, syntax : ExitCodes, tests : ExitCodes,
          lint : {0, 1}, exc : {"none"}, cred : {FALSE}]
    \cup [path_exists : {TRUE}, docker : {"ok"}, syntax : {0, 1}, tests : {0, 1},
          lint : {0}, exc : {"syntax", "tests", "lint"}, cred : BOOLEAN]

\* The validations the runs of the workflow are explored with: at most one
\* sub-step fails (the syntax check, the tests, or the tests by timeout),
\* flake8 is silent, and a raising sandbox call is the first one.
RunExecutorEnv ==
    {env \in ExecutorEnv :
        /\ env.lint = 0
        /\ <<env.syntax, env.tests>> \in {<<0, 0>>, <<1, 0>>, <<0, 1>>, <<0, -1>>}
        /\ env.exc \in {"none", "syntax"}}

\* The sections of test_output, as sequences of lines (the check mark that
\* starts two of the literals is left out).
SyntaxSection(env) ==
    <<"=== SYNTAX CHECK ===">>
    \o (IF env.syntax # 0 THEN syntax_output(env.syntax)
        ELSE <<"All Python files have valid syntax">>)

\* The pytest section left out when the syntax check failed.
PytestSection_after_clean_syntax(env) ==
    IF env.syntax # 0 THEN <<>>
    ELSE <<"", "=== PYTEST RESULTS ===">> \o pytest_stdout(env.tests)

PytestSection(env) ==
    <<"", "=== PYTEST RESULTS ===">> \o pytest_stdout(env.tests)

LintSection(env) ==
    <<"", "=== LINTER RESULTS ===">>
    \o (IF lint_stdout(env.lint) # EmptyString THEN lint_stdout(env.lint)
        ELSE <<"No linting issues found">>)

ExecutionErrorSection ==
    <<"", "=== EXECUTION ERROR ===", "Docker API error: 500 Server Error">>

\* final_exit_code with only the positive exit codes counted as failures.
final_exit_code_positive(env) ==
    LET after_syntax == IF env.syntax > 0 THEN 1 ELSE 0
    IN  IF env.tests > 0 THEN env.tests ELSE after_syntax

\* final_exit_code after the sub-steps that ran without raising.
final_exit_code(env) ==
    LET after_syntax == IF env.syntax # 0 THEN 1 ELSE 0
    IN  IF env.tests # 0 THEN env.tests ELSE after_syntax

executor_node(s, env) ==
    LET s1 == [s EXCEPT !.status = "testing"] IN
    IF s1.local_path = ""
    THEN [s1 EXCEPT !.test_output = <<"Error: No local path in state">>,
                    !.test_exit_code = 1]
    ELSE IF ~env.path_exists
    THEN [s1 EXCEPT !.test_output = <<"Error: Path does not exist: workspace/repo">>,
                    !.test_exit_code = 1]
    ELSE IF env.docker = "unavailable"
    THEN [s1 EXCEPT !.test_output =
                       <<"Docker unavailable. Skipping tests - proceeding to publish.">>,
                    !.test_exit_code = 0]
    ELSE IF env.docker = "raise"
    THEN [s1 EXCEPT !.test_output = <<"Docker initialization failed. Skipping tests.">>,
                    !.test_exit_code = 0]
    ELSE IF env.exc # "none"
    THEN IF env.cred
         THEN [s1 EXCEPT !.test_output =
                   <<"Docker credentials error - skipping tests. Code changes are ready.">>,
                         !.test_exit_code = 0]
         ELSE LET done == CASE env.exc = "syntax" -> <<>>
                            [] env.exc = "tests"  -> SyntaxSection(env)
                            [] OTHER              -> SyntaxSection(env) \o PytestSection(env)
              IN  [s1 EXCEPT !.test_output = done \o ExecutionErrorSection,
                             !.test_exit_code = 1]
    ELSE [s1 EXCEPT !.test_output =
                       SyntaxSection(env) \o PytestSection(env) \o LintSection(env),
                    !.test_exit_code = final_exit_code(env)]

----------------------------------------------------------------------------
(* nodes/reviewer.py                                                       *)

\* str.strip() on the lines that occur: two of them are indented and one is
\* made of blanks.
strip(line) ==
    CASE line = "  File a.py, line 1" -> "File a.py, line 1"
      [] line = "  E   assert 1 == 2" -> "E   assert 1 == 2"
      [] line = "   " -> ""
      [] OTHER -> line

\* How many of the four marker tests of lines 158-171 a line passes, that
\* is how often it is appended to error_lines.
marker_hits(line) ==
    CASE line = "SyntaxError: invalid syntax" -> 1
      [] line = "FAILED test_a.py::test_a - AssertionError: assert 1 == 2" -> 3
      [] line = "E   assert 1 == 2" -> 1
      [] line = "  E   assert 1 == 2" -> 1
      [] line = "AssertionError: Expected 5, got 3" -> 2
      [] line = "Docker API error: 500 Server Error" -> 1
      [] line = "Error: No local path in state" -> 1
      [] line = "Error: Path does not exist: workspace/repo" -> 1
      [] OTHER -> 0

RECURSIVE Repeat(_, _)
Repeat(x, n) == IF n = 0 THEN <<>> ELSE <<x>> \o Repeat(x, n - 1)

RECURSIVE error_lines(_)
error_lines(lines) ==
    IF lines = <<>> THEN <<>>
    ELSE Repeat(strip(Head(lines)), marker_hits(Head(lines)))
         \o error_lines(Tail(lines))

\* list(dict.fromkeys(xs)): the first occurrence of each element, in order.
unique(xs) ==
    LET first_at(i) == \A j \in 1..(i - 1) : xs[j] # xs[i]
        kept == SelectSeq([i \in 1..Len(xs) |-> i], first_at)
    IN  [k \in 1..Len(kept) |-> xs[kept[k]]]

RECURSIVE non_empty(_)
non_empty(lines) ==
    IF lines = <<>> THEN <<>>
    ELSE (IF strip(Head(lines)) # "" THEN <<strip(Head(lines))>> ELSE <<>>)
         \o non_empty(Tail(lines))

FirstN(xs, n) == SubSeq(xs, 1, IF Len(xs) < n THEN Len(xs) ELSE n)
LastN(xs, n)  == SubSeq(xs, IF Len(xs) < n THEN 1 ELSE Len(xs) - n + 1, Len(xs))

\* _extract_error_summary without the removal of the duplicates.
_extract_error_summary_no_dedupe(test_output) ==
    IF test_output = EmptyString
    THEN <<"Unknown error (no output)">>
    ELSE IF error_lines(test_output) # <<>>
    THEN FirstN(error_lines(test_output), 3)
    ELSE IF non_empty(test_output) # <<>>
    THEN LastN(non_empty(test_output), 3)
    ELSE <<"Tests failed (see full output)">>

\* The summary is the sequence of the strings that " | ".join puts together.
_extract_error_summary(test_output) ==
    IF test_output = EmptyString
    THEN <<"Unknown error (no output)">>
    ELSE IF error_lines(test_output) # <<>>
    THEN FirstN(unique(error_lines(test_output)), 3)
    ELSE IF non_empty(test_output) # <<>>
    THEN LastN(non_empty(test_output), 3)
    ELSE <<"Tests failed (see full output)">>

\* reviewer_node with the retry test written `attempt_count < max_attempts`.
reviewer_node_off_by_one(s, max_attempts) ==
    LET exit_code     == s.test_exit_code
        attempt_count == s.attempt_count
    IN  IF exit_code = 0
        THEN [s EXCEPT !.status = "publishing"]
        ELSE IF attempt_count < max_attempts
        THEN [s EXCEPT
                 !.error_history = Append(@, AttemptEntry(attempt_count + 1,
                                              _extract_error_summary(s.test_output))),
                 !.attempt_count = attempt_count + 1,
                 !.status = "developing"]
        ELSE [s EXCEPT
                 !.error_history = Append(@, MaxRetriesExceeded(attempt_count + 1)),
                 !.attempt_count = attempt_count + 1,
                 !.status = "failed"]

\* reviewer_node whose failure path does not record its entry.
reviewer_node_no_entry(s, max_attempts) ==
    LET exit_code     == s.test_exit_code
        attempt_count == s.attempt_count
    IN  IF exit_code = 0
        THEN [s EXCEPT !.status = "publishing"]
        ELSE IF attempt_count < max_attempts - 1
        THEN [s EXCEPT
                 !.error_history = Append(@, AttemptEntry(attempt_count + 1,
                                              _extract_error_summary(s.test_output))),
                 !.attempt_count = attempt_count + 1,
                 !.status = "developing"]
        ELSE [s EXCEPT
                 !.attempt_count = attempt_count + 1,
                 !.status = "failed"]

\* reviewer_node that counts the passing validation as an attempt too.
reviewer_node_counts_success(s, max_attempts) ==
    LET exit_code     == s.test_exit_code
        attempt_count == s.attempt_count
    IN  IF exit_code = 0
        THEN [s EXCEPT !.status = "publishing",
                       !.attempt_count = attempt_count + 1]
        ELSE IF attempt_count < max_attempts - 1
        THEN [s EXCEPT
                 !.error_history = Append(@, AttemptEntry(attempt_count + 1,
                                              _extract_error_summary(s.test_output))),
                 !.attempt_count = attempt_count + 1,
                 !.status = "developing"]
        ELSE [s EXCEPT
                 !.error_history = Append(@, MaxRetriesExceeded(attempt_count + 1)),
                 !.attempt_count = attempt_count + 1,
                 !.status = "failed"]

\* reviewer_node that keeps only its own entry in error_history.
reviewer_node_only_last_entry(s, max_attempts) ==
    LET exit_code     == s.test_exit_code
        attempt_count == s.attempt_count
    IN  IF exit_code = 0
        THEN [s EXCEPT !.status = "publishing"]
        ELSE IF attempt_count < max_attempts - 1
        THEN [s EXCEPT
                 !.error_history = <<AttemptEntry(attempt_count + 1,
                                         _extract_error_summary(s.test_output))>>,
                 !.attempt_count = attempt_count + 1,
                 !.status = "developing"]
        ELSE [s EXCEPT
                 !.error_history = <<MaxRetriesExceeded(attempt_count + 1)>>,
                 !.attempt_count = attempt_count + 1,
                 !.status = "failed"]

\* reviewer_node that counts the attempts by the length of error_history.
reviewer_node_counts_history(s, max_attempts) ==
    LET exit_code     == s.test_exit_code
        attempt_count == Len(s.error_history)
    IN  IF exit_code = 0
        THEN [s EXCEPT !.status = "publishing"]
        ELSE IF attempt_count < max_attempts - 1
        THEN [s EXCEPT
                 !.error_history = Append(@, AttemptEntry(attempt_count + 1,
                                              _extract_error_summary(s.test_output))),
                 !.attempt_count = attempt_count + 1,
                 !.status = "developing"]
        ELSE [s EXCEPT
                 !.error_history = Append(@, MaxRetriesExceeded(attempt_count + 1)),
                 !.attempt_count = attempt_count + 1,
                 !.status = "failed"]

reviewer_node(s, max_attempts) ==
    LET exit_code     == s.test_exit_code
        attempt_count == s.attempt_count
    IN  IF exit_code = 0
        THEN [s EXCEPT !.status = "publishing"]
        ELSE IF attempt_count < max_attempts - 1
        THEN [s EXCEPT
                 !.error_history = Append(@, AttemptEntry(attempt_count + 1,
                                              _extract_error_summary(s.test_output))),
                 !.attempt_count = attempt_count + 1,
                 !.status = "developing"]
        ELSE [s EXCEPT
                 !.error_history = Append(@, MaxRetriesExceeded(attempt_count + 1)),
                 !.attempt_count = attempt_count + 1,
                 !.status = "failed"]

should_retry(s, max_attempts) ==
    s.test_exit_code # 0 /\ s.attempt_count < max_attempts

----------------------------------------------------------------------------
(* nodes/publisher.py                                                      *)

PrUrl == "https://github.com/owner/repo/pull/1"

\* What the collaborators answer during one publisher_node call.
\*   commit  "ok", "nochanges" or "fail" of commit_changes; only printed
\*   push    "ok" or "fail" of push_branch, "raise" when it lets an
\*           exception other than GitCommandError escape
\*   pr      "created" or "updated" (push_pr succeeds), or "fail"
PublisherEnv ==
    [commit : {"ok", "nochanges", "fail"}, push : {"fail", "raise"}, pr : {"fail"}]
    \cup [commit : {"ok", "nochanges", "fail"}, push : {"ok"},
          pr : {"created", "updated", "fail"}]

publisher_raises(s, env) == s.local_path # "" /\ env.push = "raise"

\* publisher_node that forgets the workspace once the pull request exists.
publisher_node_clears_path(s, env) ==
    IF s.local_path = ""
    THEN [s EXCEPT !.status = "failed",
                   !.error_history = Append(@, PublisherNoPath)]
    ELSE IF env.push # "ok"
    THEN [s EXCEPT !.status = "failed",
                   !.error_history = Append(@, PushFailed)]
    ELSE IF env.pr # "fail"
    THEN [s EXCEPT !.pr_url = PrUrl, !.status = "completed", !.local_path = ""]
    ELSE [s EXCEPT !.status = "failed",
                   !.error_history = Append(@, PRCreationFailed)]

\* publisher_node that keeps the URL of the pushed branch when the pull
\* request could not be created.
publisher_node_url_on_failure(s, env) ==
    IF s.local_path = ""
    THEN [s EXCEPT !.status = "failed",
                   !.error_history = Append(@, PublisherNoPath)]
    ELSE IF env.push # "ok"
    THEN [s EXCEPT !.status = "failed",
                   !.error_history = Append(@, PushFailed)]
    ELSE IF env.pr # "fail"
    THEN [s EXCEPT !.pr_url = PrUrl, !.status = "completed"]
    ELSE [s EXCEPT !.pr_url = PrUrl, !.status = "failed",
                   !.error_history = Append(@, PRCreationFailed)]

publisher_node(s, env) ==
    IF s.local_path = ""
    THEN [s EXCEPT !.status = "failed",
                   !.error_history = Append(@, PublisherNoPath)]
    ELSE IF env.push # "ok"
    THEN [s EXCEPT !.status = "failed",
                   !.error_history = Append(@, PushFailed)]
    ELSE IF env.pr # "fail"
    THEN [s EXCEPT !.pr_url = PrUrl, !.status = "completed"]
    ELSE [s EXCEPT !.status = "failed",
                   !.error_history = Append(@, PRCreationFailed)]

----------------------------------------------------------------------------
(* graph/workflow.py                                                       *)

Nodes == {"architect", "developer", "executor", "reviewer", "publisher"}

\* "END": workflow.invoke returned and run_workflow returns final_state.
\* "raised": workflow.invoke raised and run_workflow returned from its
\* exception handler.
Terminal == {"END", "raised"}

\* _route_after_review whose last branch goes on to the publisher.
_route_after_review_else_publisher(s) ==
    IF s.status = "publishing" THEN "publisher"
    ELSE IF s.status = "developing" THEN "developer"
    ELSE "publisher"

_route_after_review(s) ==
    IF s.status = "publishing" THEN "publisher"
    ELSE IF s.status = "developing" THEN "developer"
    ELSE "END"

\* run_workflow's `except Exception` (lines 179-184): the state returned is
\* initial_state with two fields overwritten.
run_workflow_except ==
    [create_initial_state EXCEPT !.status = "failed",
                                 !.error_history = <<CriticalError>>]

\* A node returns new_state and the graph moves along its edge to `next`.
Returns(node, how, new_state, next) ==
    /\ state' = new_state
    /\ pc' = next
    /\ trace' = Append(trace, Ev(node, how))

\* A node raises: the exception leaves workflow.invoke.
Raises(node) ==
    /\ state' = run_workflow_except
    /\ pc' = "raised"
    /\ trace' = Append(trace, Ev(node, "raised"))

Init ==
    /\ MAX_RETRY_ATTEMPTS \in 0..MaxAttemptsBound
    /\ state = create_initial_state
    /\ pc = "architect"
    /\ trace = <<>>

Architect ==
    /\ pc = "architect"
    /\ \E env \in ArchitectEnv :
          IF architect_raises(env)
          THEN Raises("architect")
          ELSE Returns("architect", "returned", architect_node(state, env), "developer")
    /\ UNCHANGED MAX_RETRY_ATTEMPTS

Developer ==
    /\ pc = "developer"
    /\ \E env \in RunDeveloperEnv :
          IF developer_raises(env)
          THEN Raises("developer")
          ELSE Returns("developer", IF developer_applies(env) THEN "applied" ELSE "gave up",
                       developer_node(state, env), "executor")
    /\ UNCHANGED MAX_RETRY_ATTEMPTS

Executor ==
    /\ pc = "executor"
    /\ \E env \in RunExecutorEnv :
          LET new_state == executor_node(state, env)
          IN  Returns("executor",
                      IF new_state.test_exit_code = 0 THEN "passed" ELSE "failed",
                      new_state, "reviewer")
    /\ UNCHANGED MAX_RETRY_ATTEMPTS

Reviewer ==
    /\ pc = "reviewer"
    /\ \E new_state \in {reviewer_node(state, MAX_RETRY_ATTEMPTS)} :
          Returns("reviewer", "returned", new_state, _route_after_review(new_state))
    /\ UNCHANGED MAX_RETRY_ATTEMPTS

Publisher ==
    /\ pc = "publisher"
    /\ \E env \in PublisherEnv :
          IF publisher_raises(state, env)
          THEN Raises("publisher")
          ELSE Returns("publisher", "returned", publisher_node(state, env), "END")
    /\ UNCHANGED MAX_RETRY_ATTEMPTS

Next ==
    \/ Architect
    \/ Developer
    \/ Executor
    \/ Reviewer
    \/ Publisher

Spec == Init /\ [][Next]_vars

\* The compiled graph runs the next node as soon as the previous one has
\* returned, and every call of a collaborator returns or raises.
LiveSpec == Spec /\ WF_vars(Next)

TypeOK ==
    /\ MAX_RETRY_ATTEMPTS \in 0..MaxAttemptsBound
    /\ pc \in Nodes \cup Terminal
    /\ state.status \in Statuses
    /\ state.local_path \in {"", Workspace}
    /\ state.attempt_count \in Nat
    /\ state.test_exit_code \in ExitCodes
    /\ state.pr_url \in {None, PrUrl}

----------------------------------------------------------------------------
(* architect_node on its own: the first node of a run with every answer of  *)
(* git, the file system and the LLM, followed by the node the graph runs    *)
(* next (the edge architect -> developer of line 68).                       *)

\* One call of architect_node; the event keeps the answers of the call.
ArchitectCall ==
    /\ pc = "architect"
    /\ \E env \in ArchitectEnv :
          /\ state' = IF architect_raises(env) THEN run_workflow_except
                      ELSE architect_node(state, env)
          /\ pc' = IF architect_raises(env) THEN "raised" ELSE "developer"
          /\ trace' = <<[node |-> "architect",
                         how  |-> IF architect_raises(env) THEN "raised" ELSE "returned",
                         env  |-> env]>>
    /\ UNCHANGED MAX_RETRY_ATTEMPTS

ArchitectNext ==
    \/ ArchitectCall
    \/ Developer

ArchitectSpec == Init /\ [][ArchitectNext]_vars

----------------------------------------------------------------------------
(* reviewer_node on its own: called once on a state drawn from bounded     *)
(* sets, as the test cases at the end of nodes/reviewer.py do.             *)

RouterStates ==
    [ status         : {"testing"},
      local_path     : {"", Workspace},
      attempt_count  : 0..MaxRouterCount,
      error_history  : {<<>>, <<LLMAnalysisFailed>>,
                        <<AttemptEntry(1, <<"E   assert 1 == 2">>), WriteFailed>>},
      test_exit_code : ExitCodes,
      test_output    : {EmptyString, <<"1 passed">>, <<"Still failing">>,
                        <<"AssertionError: Expected 5, got 3">>},
      changes_made   : {<<>>, <<"modify">>},
      pr_url         : {None} ]

RouterInit ==
    /\ MAX_RETRY_ATTEMPTS \in 0..MaxAttemptsBound
    /\ state \in RouterStates
    /\ pc = "reviewer"
    /\ trace = <<>>

RouterNext == Reviewer

RouterSpec == RouterInit /\ [][RouterNext]_vars

----------------------------------------------------------------------------
(* _extract_error_summary on its own: called twice on a transcript drawn    *)
(* from bounded sets.  `state` is then the transcript, as test_output.      *)

\* The lines of the transcripts: four that pass a marker test, one of them
\* also indented, two that pass none, the empty line and a line of blanks.
TranscriptLines ==
    {"SyntaxError: invalid syntax",
     "FAILED test_a.py::test_a - AssertionError: assert 1 == 2",
     "E   assert 1 == 2",
     "  E   assert 1 == 2",
     "Docker API error: 500 Server Error",
     "1 passed",
     "  File a.py, line 1",
     "",
     "   "}

\* test_output.split("\n") has at least one line.
Transcripts == SeqsUpTo(TranscriptLines, MaxLines) \ {<<>>}

SummaryInit ==
    /\ MAX_RETRY_ATTEMPTS = MaxAttemptsBound
    /\ state \in [test_output : Transcripts]
    /\ pc = "extract"
    /\ trace = <<>>

\* Two calls of _extract_error_summary on the same transcript.
SummaryCall ==
    /\ pc = "extract"
    /\ \E first \in {_extract_error_summary(state.test_output)},
          second \in {_extract_error_summary(state.test_output)} :
          trace' = <<[node |-> "_extract_error_summary", summary |-> first,
                      again |-> second]>>
    /\ pc' = "END"
    /\ UNCHANGED <<MAX_RETRY_ATTEMPTS, state>>

SummaryNext == SummaryCall

SummarySpec == SummaryInit /\ [][SummaryNext]_vars

----------------------------------------------------------------------------
(* developer_node on its own: called once on a state as the architect or   *)
(* the reviewer leaves it, with every answer of the generator and of the   *)
(* file system.                                                            *)

DeveloperStates ==
    {[create_initial_state EXCEPT !.status = "developing",
                                  !.local_path = path,
                                  !.attempt_count = count,
                                  !.error_history = history,
                                  !.changes_made = changes] :
        path \in {"", Workspace},
        count \in 0..2,
        history \in {<<>>, <<LLMAnalysisFailed>>},
        changes \in {<<>>, <<"modify">>}}

DeveloperInit ==
    /\ MAX_RETRY_ATTEMPTS = MaxAttemptsBound
    /\ state \in DeveloperStates
    /\ pc = "developer"
    /\ trace = <<>>

\* No response text: the constructor or llm.invoke raised.
NoResponse == [json_match |-> FALSE, strict |-> FALSE, cleaned |-> FALSE, pairs |-> 0]

\* One call of developer_node.  The event keeps the answers of the call
\* (`answered`: llm.invoke returned the response) next to the state before
\* it and how it ended.
DeveloperCall ==
    /\ pc = "developer"
    /\ \E env \in DeveloperEnv, resp \in Responses :
          /\ IF env.get_llm = "ok" /\ env.llm = "ok"
             THEN /\ env.payload = parse_layers(resp).payload
                  /\ env.payload = "pattern" => Len(env.writes) = resp.pairs
             ELSE resp = NoResponse
          /\ state' = IF developer_raises(env) THEN state
                      ELSE developer_node(state, env)
          /\ pc' = IF developer_raises(env) THEN "raised" ELSE "END"
          /\ trace' = <<[node     |-> "developer",
                         how      |-> IF developer_raises(env) THEN "raised"
                                      ELSE IF developer_applies(env) THEN "applied"
                                      ELSE "gave up",
                         env      |-> env,
                         answered |-> env.get_llm = "ok" /\ env.llm = "ok",
                         response |-> resp,
                         before   |-> state]>>
    /\ UNCHANGED MAX_RETRY_ATTEMPTS

DeveloperNext == DeveloperCall

DeveloperSpec == DeveloperInit /\ [][DeveloperNext]_vars

----------------------------------------------------------------------------
(* executor_node on its own: called once on a state as the developer       *)
(* leaves it, with every answer of the sandbox, and followed by the         *)
(* reviewer's decision on what it returned.                                 *)

ExecutorStates ==
    {[create_initial_state EXCEPT !.status = status,
                                  !.local_path = path,
                                  !.attempt_count = count] :
        status \in {"developing", "testing"},
        path \in {"", Workspace},
        count \in 0..(MaxAttemptsBound - 1)}

ExecutorInit ==
    /\ MAX_RETRY_ATTEMPTS \in 0..MaxAttemptsBound
    /\ state \in ExecutorStates
    /\ pc = "executor"
    /\ trace = <<>>

\* One call of executor_node; the event keeps the answers of the call and
\* the state before it.
ExecutorCall ==
    /\ pc = "executor"
    /\ \E env \in ExecutorEnv :
          /\ state' = executor_node(state, env)
          /\ pc' = "reviewer"
          /\ trace' = <<[node |-> "executor", how |-> "returned", env |-> env,
                         before |-> state]>>
    /\ UNCHANGED MAX_RETRY_ATTEMPTS

ExecutorNext ==
    \/ ExecutorCall
    \/ Reviewer

ExecutorSpec == ExecutorInit /\ [][ExecutorNext]_vars

----------------------------------------------------------------------------
(* publisher_node on its own: called once on a state as the reviewer       *)
(* leaves it on the publish path, with every answer of git and of the       *)
(* GitHub API.                                                              *)

PublisherStates ==
    {[create_initial_state EXCEPT !.status = "publishing",
                                  !.local_path = path,
                                  !.attempt_count = count,
                                  !.error_history = history,
                                  !.test_exit_code = 0,
                                  !.test_output = <<"1 passed">>,
                                  !.changes_made = changes] :
        path \in {"", Workspace},
        count \in 0..(MaxAttemptsBound - 1),
        history \in {<<>>, <<LLMAnalysisFailed>>},
        changes \in {<<>>, <<"modify">>}}

PublisherInit ==
    /\ MAX_RETRY_ATTEMPTS = MaxAttemptsBound
    /\ state \in PublisherStates
    /\ pc = "publisher"
    /\ trace = <<>>

\* One call of publisher_node; the event keeps the answers of the call and
\* the state before it.
PublisherCall ==
    /\ pc = "publisher"
    /\ \E env \in PublisherEnv :
          /\ state' = IF publisher_raises(state, env) THEN run_workflow_except
                      ELSE publisher_node(state, env)
          /\ pc' = IF publisher_raises(state, env) THEN "raised" ELSE "END"
          /\ trace' = <<[node   |-> "publisher",
                         how    |-> IF publisher_raises(state, env) THEN "raised"
                                    ELSE "returned",
                         env    |-> env,
                         before |-> state]>>
    /\ UNCHANGED MAX_RETRY_ATTEMPTS

PublisherNext == PublisherCall

PublisherSpec == PublisherInit /\ [][PublisherNext]_vars

----------------------------------------------------------------------------
(* tools/docker_sandbox.py: DockerSandbox.execute on its own, called once   *)
(* with every answer of the Docker daemon.  `state` is then the daemon's    *)
(* record: the containers that exist.                                       *)

\* The exceptions of the docker client that execute's handlers tell apart;
\* "Other" is any exception that is none of them (a connection error of the
\* HTTP layer).  ImageNotFound is a subclass of APIError.
RunErrors == {"ContainerError", "ImageNotFound", "APIError", "Other"}
CallErrors == {"APIError", "Other"}

\* The container the call creates, and one that exists before the call.
NewContainer == "created by execute"
OtherContainer == "other"

\* Largest exit status a finished container reports.
MaxExitStatus == 2

\* What the daemon answers during one call of execute.
\*   ensure_image  _ensure_image() (line 140): "ok" or "raise"
\*   run           client.containers.run (lines 155-167): "ok" or the
\*                 exception it raises
\*   run_created   when run raises: the container had been created before
\*                 the exception (create succeeded, start failed)
\*   wait          container.wait (line 171): "ok", "timeout" (the read
\*                 timeout of `timeout` seconds) or "error" (another
\*                 exception)
\*   StatusCode    result of wait: <<>> when the key is missing
\*   exit_status   ContainerError.exit_status
\*   kill, logs, remove   "ok" or the exception the call raises
SandboxEnv ==
    [ensure_image : {"ok", "raise"},
     run          : {"ok"} \cup RunErrors,
     run_created  : BOOLEAN,
     wait         : {"ok", "timeout", "error"},
     StatusCode   : {<<>>} \cup {<<c>> : c \in 0..MaxExitStatus},
     exit_status  : {1},
     kill         : {"ok"} \cup CallErrors,
     logs         : {"ok"} \cup CallErrors,
     remove       : {"ok"} \cup CallErrors]

\* ExecutionResult (lines 27-51), without duration_seconds.
ExecutionResult(stdout, stderr, exit_code, timed_out) ==
    [stdout |-> stdout, stderr |-> stderr, exit_code |-> exit_code,
     timed_out |-> timed_out]

NoResult == ExecutionResult("", "", 0, FALSE)

\* How a call ends: it returns `result`, or it raises `error`; `left` says
\* whether the container the call created still exists.
Ended(how, result, error, left) ==
    [how |-> how, result |-> result, error |-> error, left |-> left]

\* The handlers of lines 186-195 for an exception raised inside the try
\* block of line 153, `left` telling whether the container exists and
\* timed_out the flag at that point.
execute_handlers(env, exc, left, timed_out) ==
    CASE exc = "ContainerError" ->
            Ended("returned", ExecutionResult("", "ContainerError", env.exit_status, timed_out),
                  None, left)
      [] exc \in {"ImageNotFound", "APIError"} ->
            Ended("raised", NoResult, "RuntimeError", left)
      [] OTHER -> Ended("raised", NoResult, exc, left)

execute(env) ==
    IF env.ensure_image = "raise"
    THEN Ended("raised", NoResult, "RuntimeError", FALSE)
    ELSE IF env.run # "ok"
    THEN execute_handlers(env, env.run, env.run_created, FALSE)
    ELSE LET timed_out == env.wait # "ok"
             exit_code == IF env.wait = "ok"
                          THEN (IF env.StatusCode = <<>> THEN -1 ELSE env.StatusCode[1])
                          ELSE -1
         IN  IF timed_out /\ env.kill # "ok"
             THEN execute_handlers(env, env.kill, TRUE, timed_out)
             ELSE IF env.logs # "ok"
             THEN execute_handlers(env, env.logs, TRUE, timed_out)
             ELSE IF env.remove # "ok"
             THEN execute_handlers(env, env.remove, TRUE, timed_out)
             ELSE Ended("returned", ExecutionResult("out", "err", exit_code, timed_out),
                        None, FALSE)

SandboxInit ==
    /\ MAX_RETRY_ATTEMPTS = MaxAttemptsBound
    /\ state \in [containers : {{}, {OtherContainer}}]
    /\ pc = "execute"
    /\ trace = <<>>

SandboxExecute ==
    /\ pc = "execute"
    /\ \E env \in SandboxEnv :
          LET end == execute(env) IN
          /\ state' = [state EXCEPT !.containers =
                          IF end.left THEN @ \cup {NewContainer} ELSE @]
          /\ pc' = end.how
          /\ trace' = <<[node |-> "execute", how |-> end.how, env |-> env,
                         result |-> end.result, error |-> end.error,
                         before |-> state]>>
    /\ UNCHANGED MAX_RETRY_ATTEMPTS

SandboxNext == SandboxExecute

SandboxSpec == SandboxInit /\ [][SandboxNext]_vars

----------------------------------------------------------------------------
(* app.py: the web interface.  `state` is then the module's globals         *)
(* (current_job, web_logger.logs) with the position of every POST /run      *)
(* request and of the thread it starts; Flask serves the requests in        *)
(* threads of their own (app.run(threaded=True)).                           *)

\* Number of POST /run requests that are sent.
MaxRequests == 2

\* Largest number of lines one job prints while the requests interleave.
MaxRunLines == 1

\* Number of lines printed, and of GET /status polls, while one job is
\* observed.
MaxPrints == 2
MaxPolls == 2

\* get_status returns web_logger.logs[-100:].
LogWindow == 100

Requests == 1..MaxRequests

\* The globals as the module initialises them (lines 28-33, 430-444), no
\* request sent.  A log line is written as its position in the list.
WebInitial ==
    [current_job |-> [running |-> FALSE, status |-> "idle", pr_url |-> None],
     logs        |-> <<>>,
     request     |-> [r \in Requests |-> "none"],
     task        |-> [r \in Requests |-> "none"]]

\* run_agent, lines 473-476: the test of current_job["running"].
RunAgentCheck(r) ==
    /\ pc = "serving"
    /\ state.request[r] = "none"
    /\ state' = [state EXCEPT !.request[r] =
                    IF state.current_job.running THEN "rejected 400" ELSE "checked"]
    /\ trace' = Append(trace, [node |-> "run_agent", request |-> r,
                               how |-> state'.request[r]])
    /\ UNCHANGED <<MAX_RETRY_ATTEMPTS, pc>>

\* run_agent, lines 478-521: the globals are reset, the thread is started
\* and "started" is returned.
RunAgentStart(r) ==
    /\ pc = "serving"
    /\ state.request[r] = "checked"
    /\ state' = [state EXCEPT
                    !.current_job = [running |-> TRUE, status |-> "starting",
                                     pr_url |-> None],
                    !.logs = <<>>,
                    !.request[r] = "started",
                    !.task[r] = "running"]
    /\ trace' = Append(trace, [node |-> "run_agent", request |-> r, how |-> "started"])
    /\ UNCHANGED <<MAX_RETRY_ATTEMPTS, pc>>

\* run_task inside run_workflow: one line is printed to web_logger
\* (WebLogger.write, lines 435-439); a job prints at most `cap` lines more
\* than the list holds `floor` lines.
TaskPrint(r, floor, cap) ==
    /\ pc = "serving"
    /\ state.task[r] = "running"
    /\ Len(state.logs) < floor + cap
    /\ state' = [state EXCEPT !.logs = Append(@, Len(@) + 1)]
    /\ trace' = trace
    /\ UNCHANGED <<MAX_RETRY_ATTEMPTS, pc>>

\* run_task, lines 500-515: run_workflow returns its result, or raises.
TaskReturn(r) ==
    /\ pc = "serving"
    /\ state.task[r] = "running"
    /\ \E result \in {"completed", "failed", "raise"} :
          state' = [state EXCEPT
                       !.current_job.status = IF result = "raise" THEN "failed" ELSE result,
                       !.current_job.pr_url = IF result = "completed" THEN PrUrl ELSE @,
                       !.logs = IF result = "raise" THEN Append(@, Len(@) + 1) ELSE @,
                       !.task[r] = "returned"]
    /\ trace' = trace
    /\ UNCHANGED <<MAX_RETRY_ATTEMPTS, pc>>

\* run_task, lines 516-517: the finally clause.
TaskFinally(r) ==
    /\ pc = "serving"
    /\ state.task[r] = "returned"
    /\ state' = [state EXCEPT !.current_job.running = FALSE,
                              !.task[r] = "finished"]
    /\ trace' = trace
    /\ UNCHANGED <<MAX_RETRY_ATTEMPTS, pc>>

\* get_status, lines 524-532, polled while the job runs.
GetStatus ==
    /\ pc = "serving"
    /\ state.current_job.running
    /\ Len(trace) < MaxPolls
    /\ trace' = Append(trace, [node    |-> "get_status",
                               running |-> state.current_job.running,
                               status  |-> state.current_job.status,
                               pr_url  |-> state.current_job.pr_url,
                               logs    |-> LastN(state.logs, LogWindow)])
    /\ UNCHANGED <<MAX_RETRY_ATTEMPTS, state, pc>>

\* The POST /run requests and the threads they start, interleaved.
WebInit ==
    /\ MAX_RETRY_ATTEMPTS = MaxAttemptsBound
    /\ state = WebInitial
    /\ pc = "serving"
    /\ trace = <<>>

WebNext ==
    \E r \in Requests :
        \/ RunAgentCheck(r)
        \/ RunAgentStart(r)
        \/ TaskPrint(r, 0, MaxRunLines)
        \/ TaskReturn(r)
        \/ TaskFinally(r)

WebSpec == WebInit /\ [][WebNext]_vars

\* One job and the polls of its status: the job of request 1 has been
\* started and has printed no line yet, or one line less than get_status
\* returns at most.
PrintedAtStart == {0, LogWindow - 1}

StatusInit ==
    /\ MAX_RETRY_ATTEMPTS = MaxAttemptsBound
    /\ \E n \in PrintedAtStart :
          state = [WebInitial EXCEPT
                      !.current_job = [running |-> TRUE, status |-> "starting",
                                       pr_url |-> None],
                      !.logs = [k \in 1..n |-> k],
                      !.request[1] = "started",
                      !.task[1] = "running"]
    /\ pc = "serving"
    /\ trace = <<>>

StatusNext ==
    \/ \E n \in PrintedAtStart : Len(state.logs) >= n /\ TaskPrint(1, n, MaxPrints)
    \/ TaskReturn(1)
    \/ TaskFinally(1)
    \/ GetStatus

StatusSpec == StatusInit /\ [][StatusNext]_vars

----------------------------------------------------------------------------
(* tools/github_tools.py: push_pr on its own, called repeatedly against     *)
(* one GitHub repository.  `state` is then the repository's pull requests   *)
(* (`open`: the open ones, as records; `created`: how many were ever        *)
(* created, the number of the newest) and the number of calls made.         *)

\* Number of push_pr calls in one exploration.
MaxCalls == 3

Branches == {"auto-dev-feature", "other-feature"}
Titles == {"Add feature", "Add feature, second try"}
BaseBranch == "main"

\* html_url of the pull request with the number n; <<>> is None.
PullUrl(n) == <<"https://github.com/owner/repo/pull/", n>>

\* PRResult (lines 41-52); pr_number 0 is None.
PRResult(success, pr_url, pr_number, message) ==
    [success |-> success, pr_url |-> pr_url, pr_number |-> pr_number,
     message |-> message]

\* What git and the GitHub API answer during one push_pr call.
\*   local  "ok", or the step before the API that makes push_pr return a
\*          failure: "repository" (lines 342-352), "commit" (363-369),
\*          "push" (372-379), "token" (382-388)
\*   api    "ok" or "raise": GithubException in the API calls (line 426)
PushPrEnv ==
    [local : {"repository", "commit", "push", "token"}, api : {"ok"}]
    \cup [local : {"ok"}, api : {"ok", "raise"}]

\* gh_repo.get_pulls(state="open", head=owner:branch, base=base_branch).
get_pulls(gh, branch_name, base_branch) ==
    {pr \in gh.open : pr.head = branch_name /\ pr.base = base_branch}

\* push_pr that creates a pull request without looking for an open one.
push_pr_always_creates(gh, title, branch_name, env) ==
    IF env.local # "ok"
    THEN [gh |-> gh, result |-> PRResult(FALSE, <<>>, 0, env.local)]
    ELSE IF env.api = "raise"
    THEN [gh |-> gh, result |-> PRResult(FALSE, <<>>, 0, "GitHub API error")]
    ELSE LET number == gh.created + 1 IN
         [gh |-> [gh EXCEPT !.created = number,
                            !.open = @ \cup {[number |-> number, head |-> branch_name,
                                              base |-> BaseBranch, title |-> title]}],
          result |-> PRResult(TRUE, PullUrl(number), number, "Created PR")]

\* push_pr (lines 320-432) on the repository gh: the repository after the
\* call and the PRResult returned.
push_pr(gh, title, branch_name, env) ==
    IF env.local # "ok"
    THEN [gh |-> gh, result |-> PRResult(FALSE, <<>>, 0, env.local)]
    ELSE IF env.api = "raise"
    THEN [gh |-> gh, result |-> PRResult(FALSE, <<>>, 0, "GitHub API error")]
    ELSE LET existing_prs == get_pulls(gh, branch_name, BaseBranch) IN
         IF existing_prs # {}
         THEN \* the first pull request of the listing is edited and returned
              LET pr == CHOOSE p \in existing_prs :
                            \A q \in existing_prs : p.number >= q.number
              IN  [gh |-> [gh EXCEPT !.open = (@ \ {pr})
                                        \cup {[pr EXCEPT !.title = title]}],
                   result |-> PRResult(TRUE, PullUrl(pr.number), pr.number,
                                       "Updated existing PR")]
         ELSE LET number == gh.created + 1 IN
              [gh |-> [gh EXCEPT !.created = number,
                                 !.open = @ \cup {[number |-> number,
                                                   head |-> branch_name,
                                                   base |-> BaseBranch,
                                                   title |-> title]}],
               result |-> PRResult(TRUE, PullUrl(number), number, "Created PR")]

\* The repository before the first call: no pull request, or one open for
\* the feature branch.
PushPrInit ==
    /\ MAX_RETRY_ATTEMPTS = MaxAttemptsBound
    /\ state \in {[open |-> {}, created |-> 0, calls |-> 0],
                  [open |-> {[number |-> 1, head |-> "auto-dev-feature",
                              base |-> BaseBranch, title |-> "Add feature"]},
                   created |-> 1, calls |-> 0]}
    /\ pc = "push_pr"
    /\ trace = <<>>

\* One call of push_pr; the event keeps the arguments, the pull requests
\* that were open before the call and the result.
PushPrCall ==
    /\ pc = "push_pr"
    /\ state.calls < MaxCalls
    /\ \E title \in Titles, branch_name \in Branches, env \in PushPrEnv :
          LET gh   == [open |-> state.open, created |-> state.created]
              done == push_pr(gh, title, branch_name, env)
          IN  /\ state' = [open |-> done.gh.open, created |-> done.gh.created,
                           calls |-> state.calls + 1]
              /\ trace' = <<[node |-> "push_pr", title |-> title,
                             branch_name |-> branch_name, before |-> gh,
                             result |-> done.result]>>
    /\ UNCHANGED <<MAX_RETRY_ATTEMPTS, pc>>

\* A maintainer merges or closes an open pull request.
ClosePull ==
    /\ pc = "push_pr"
    /\ \E pr \in state.open : state' = [state EXCEPT !.open = @ \ {pr}]
    /\ trace' = <<>>
    /\ UNCHANGED <<MAX_RETRY_ATTEMPTS, pc>>

PushPrNext ==
    \/ PushPrCall
    \/ ClosePull

PushPrSpec == PushPrInit /\ [][PushPrNext]_vars

----------------------------------------------------------------------------
(* The Docker client of the sandbox during one executor_node call.          *)
(* `state` is then the node's state with the _client field of the           *)
(* DockerSandbox the call constructs (None: no client is held).             *)

\* How the connection of the sandbox goes during the call.
\*   "constructor"  DockerSandbox() raises: no sandbox exists
\*   "from_env"     docker.from_env() raises in the client property
\*   "ping"         from_env() returns a client, its ping() raises
\*   "version"      the client answers the property's ping; the ping or the
\*                  version() of check_docker_available raises
\*   "ok"           the daemon answers
Connections == {"constructor", "from_env", "ping", "version", "ok"}

\* The client property, lines 93-106, read on a sandbox whose _client is c:
\* the _client afterwards and whether the property raised.  The client is
\* assigned before it is pinged.
client(c, conn) ==
    IF c # None THEN [_client |-> c, raised |-> FALSE]
    ELSE IF conn = "from_env" THEN [_client |-> None, raised |-> TRUE]
    ELSE IF conn = "ping" THEN [_client |-> "open", raised |-> TRUE]
    ELSE [_client |-> "open", raised |-> FALSE]

\* check_docker_available, lines 266-278, on a new sandbox.
check_docker_available(conn) ==
    LET got == client(None, conn) IN
    [_client   |-> got._client,
     available |-> ~got.raised /\ conn = "ok"]

\* cleanup, lines 280-284.
cleanup(c) == IF c # None THEN None ELSE c

\* The answers of one executor_node call with the way the connection went:
\* Docker is available exactly when the daemon answers, and the try block
\* of lines 56-58 raises only when the constructor does, since
\* check_docker_available catches every Exception.
ClientEnv ==
    {e \in [env : ExecutorEnv, conn : Connections] :
        /\ e.env.docker = "ok" <=> e.conn = "ok"
        /\ e.env.docker = "raise" <=> e.conn = "constructor"}

\* The _client of the sandbox when executor_node returns (None when no
\* sandbox was constructed): lines 43-53 return before the sandbox, lines
\* 60-66 and 68-73 return without cleanup, lines 155-156 and 161-162 clean
\* up.
executor_client(s, env, conn) ==
    IF s.local_path = "" \/ ~env.path_exists THEN None
    ELSE IF conn = "constructor" THEN None
    ELSE LET checked == check_docker_available(conn) IN
         IF ~checked.available THEN checked._client
         ELSE cleanup(client(checked._client, conn)._client)

ExecutorClientInit ==
    /\ MAX_RETRY_ATTEMPTS = MaxAttemptsBound
    /\ state \in {[state |-> s, _client |-> None] : s \in ExecutorStates}
    /\ pc = "executor"
    /\ trace = <<>>

\* One call of executor_node with the sandbox it constructs.
ExecutorClientCall ==
    /\ pc = "executor"
    /\ \E e \in ClientEnv :
          /\ state' = [state   |-> executor_node(state.state, e.env),
                       _client |-> executor_client(state.state, e.env, e.conn)]
          /\ trace' = <<[node |-> "executor", how |-> "returned", env |-> e.env,
                         conn |-> e.conn, before |-> state]>>
    /\ pc' = "returned"
    /\ UNCHANGED MAX_RETRY_ATTEMPTS

ExecutorClientNext == ExecutorClientCall

ExecutorClientSpec == ExecutorClientInit /\ [][ExecutorClientNext]_vars

----------------------------------------------------------------------------
(* Observations on a run                                                   *)

\* The events of the trace that belong to `node`.
EventsOf(node) == {i \in 1..Len(trace) : trace[i].node = node}

\* The number of executions of `node` so far.
Runs(node) == Cardinality(EventsOf(node))

\* The number of validations so far that ended with a non-zero exit code.
FailedValidations ==
    Cardinality({i \in EventsOf("executor") : trace[i].how = "failed"})

\* The number of developer executions so far whose generation failed.
FailedGenerations ==
    Cardinality({i \in EventsOf("developer") : trace[i].how = "gave up"})

\* Every developer execution so far applied its change-set.
DeveloperAlwaysApplied ==
    \A i \in EventsOf("developer") : trace[i].how = "applied"

\* The architect cloned and scanned the repository: it returned with status
\* "developing" (the history is that of the graph, so not after "raised").
ArchitectSucceeded ==
    /\ Runs("architect") = 1
    /\ \A i \in 1..Len(state.error_history) :
           state.error_history[i] \notin {CloneFailed, FileScanFailed}

\* The entries that count an attempt: those of the reviewer and those of a
\* developer whose generation failed.
AttemptKinds == {"Attempt", "Developer JSON parse failed", "Developer LLM failed"}

EntriesOfKind(history, kinds) ==
    Cardinality({i \in 1..Len(history) : history[i].kind \in kinds})

IsPrefix(xs, ys) ==
    /\ Len(xs) <= Len(ys)
    /\ SubSeq(ys, 1, Len(xs)) = xs

\* The number of apply/validate passes the reviewer allows: it stops a run
\* at attempt_count >= MAX_RETRY_ATTEMPTS - 1, which the first pass already
\* satisfies when the limit is configured below 1.
Attempts == IF MAX_RETRY_ATTEMPTS < 1 THEN 1 ELSE MAX_RETRY_ATTEMPTS

----------------------------------------------------------------------------
(* The claims                                                              *)

\* C1: in every reachable state of a run attempt_count never exceeds
\* MAX_RETRY_ATTEMPTS.  It is stated for the limits of at least 1 and the
\* runs whose architect did not fail, where failed validations alone stay
\* within the limit.
C1_AttemptCountWithinMax ==
    MAX_RETRY_ATTEMPTS >= 1 /\ ArchitectSucceeded
        => state.attempt_count <= MAX_RETRY_ATTEMPTS

\* C2, as stated: status is failed exactly when attempt_count equals
\* MAX_RETRY_ATTEMPTS and the latest validation exit code is non-zero: every
\* failed state satisfies the condition and every Decide step that ends with
\* the condition yields failed.
C2_FailedExactlyAtMax ==
    /\ [](state.status = "failed" =>
            /\ state.attempt_count = MAX_RETRY_ATTEMPTS
            /\ state.test_exit_code # 0)
    /\ [][pc = "reviewer"
            /\ state'.attempt_count = MAX_RETRY_ATTEMPTS
            /\ state'.test_exit_code # 0
          => state'.status = "failed"]_vars

\* C2, amended: a Decide step yields failed exactly when the latest exit code
\* is non-zero and attempt_count has reached MAX_RETRY_ATTEMPTS - 1, and the
\* state it yields then has a non-zero exit code and an attempt_count, one
\* more than before, of at least MAX_RETRY_ATTEMPTS.
C2_ReviewerFailsExactlyAtMax ==
    [][pc = "reviewer" =>
        /\ state'.status = "failed"
             <=> /\ state.test_exit_code # 0
                 /\ state.attempt_count >= MAX_RETRY_ATTEMPTS - 1
        /\ state'.status = "failed" =>
             /\ state'.test_exit_code # 0
             /\ state'.attempt_count = state.attempt_count + 1
             /\ state'.attempt_count >= MAX_RETRY_ATTEMPTS]_vars

\* C2 witness: the reviewer has just failed a run at the bound, and the
\* default bound of 3 was in force.
C2_Witness ==
    /\ pc = "END"
    /\ trace[Len(trace)].node = "reviewer"
    /\ state.status = "failed"
    /\ MAX_RETRY_ATTEMPTS = 3
    /\ state.attempt_count = 3

\* C3, as stated: at every point after the first Decide step,
\* len(error_history) equals attempt_count.  It is stated for the runs
\* whose architect did not fail and whose developer applied every
\* change-set, where no retry is counted twice.
C3_HistoryLengthIsAttemptCount ==
    /\ Runs("reviewer") >= 1
    /\ pc # "raised"
    /\ ArchitectSucceeded
    /\ DeveloperAlwaysApplied
    => Len(state.error_history) = state.attempt_count

\* C3, amended: at every point of a run attempt_count equals the number of
\* error_history entries written by the reviewer or for a failed generation
\* of the developer; the entries of the architect, of failed file writes, of
\* the publisher and of the exception handler come on top, so
\* len(error_history) >= attempt_count.
C3_AttemptEntriesAreAttemptCount ==
    /\ EntriesOfKind(state.error_history, AttemptKinds) = state.attempt_count
    /\ Len(state.error_history) >= state.attempt_count

\* C3 witness: after a Decide step that counted an attempt, error_history
\* is longer than attempt_count because a file write had failed.
C3_Witness ==
    /\ Runs("reviewer") >= 1
    /\ state.attempt_count >= 1
    /\ \E i \in 1..Len(state.error_history) : state.error_history[i] = WriteFailed
    /\ Len(state.error_history) > state.attempt_count

\* The Decision Router of the specification.
decide(exitCode, attemptCount, maxAttempts) ==
    IF exitCode = 0
    THEN [nextStage |-> "publish", newAttemptCount |-> attemptCount, entries |-> 0]
    ELSE IF attemptCount < maxAttempts - 1
    THEN [nextStage |-> "applying", newAttemptCount |-> attemptCount + 1, entries |-> 1]
    ELSE [nextStage |-> "failed", newAttemptCount |-> attemptCount + 1, entries |-> 1]

StatusOfStage(stage) ==
    CASE stage = "publish"  -> "publishing"
      [] stage = "applying" -> "developing"
      [] stage = "failed"   -> "failed"

\* C4: reviewer_node equals the reference router: exit code 0 gives
\* publishing with attempt_count and error_history unchanged; a non-zero exit
\* code with attempt_count < max - 1 gives developing, attempt_count + 1 and
\* one appended entry; otherwise failed, attempt_count + 1 and one appended
\* "max retries exceeded" entry.
C4_ReviewerIsReferenceRouter ==
    [][pc = "reviewer" =>
        LET d == decide(state.test_exit_code, state.attempt_count, MAX_RETRY_ATTEMPTS)
            appended == state'.error_history[Len(state'.error_history)]
        IN  /\ state'.status = StatusOfStage(d.nextStage)
            /\ state'.attempt_count = d.newAttemptCount
            /\ IsPrefix(state.error_history, state'.error_history)
            /\ Len(state'.error_history) = Len(state.error_history) + d.entries
            /\ d.nextStage = "failed" =>
                   appended = MaxRetriesExceeded(state.attempt_count + 1)
            /\ d.nextStage = "applying" =>
                   /\ appended.kind = "Attempt"
                   /\ appended.n = state.attempt_count + 1
                   /\ appended.summary # <<"Max retries exceeded">>]_vars

\* C4 witness: the reviewer was called with a non-zero exit code at
\* attempt_count = max - 1 = 2 and stopped the run.
C4_Witness ==
    /\ trace = <<Ev("reviewer", "returned")>>
    /\ MAX_RETRY_ATTEMPTS = 3
    /\ state.test_exit_code # 0
    /\ state.attempt_count = 3
    /\ state.status = "failed"
    /\ pc = "END"

\* The run has ended in the graph's END after validations that all failed
\* and developer executions that all applied their change-set.
EveryValidationFailed ==
    /\ pc = "END"
    /\ Runs("executor") >= 1
    /\ \A i \in EventsOf("executor") : trace[i].how = "failed"
    /\ DeveloperAlwaysApplied

\* C5, as stated: when every validation fails and the developer succeeds
\* each time, the run performs exactly MAX_RETRY_ATTEMPTS apply/validate
\* passes and ends failed with attempt_count = len(error_history) =
\* MAX_RETRY_ATTEMPTS, the last entry being the max-retries-exceeded entry.
\* It is stated for the runs whose architect did not fail.
C5_AllFailuresEndAtMax ==
    EveryValidationFailed /\ ArchitectSucceeded =>
        /\ Runs("developer") = MAX_RETRY_ATTEMPTS
        /\ Runs("executor") = MAX_RETRY_ATTEMPTS
        /\ state.status = "failed"
        /\ state.attempt_count = MAX_RETRY_ATTEMPTS
        /\ Len(state.error_history) = MAX_RETRY_ATTEMPTS
        /\ state.error_history[Len(state.error_history)]
               = MaxRetriesExceeded(MAX_RETRY_ATTEMPTS)

\* C5, amended: when every validation fails and the developer succeeds each
\* time, the run performs exactly n = max(1, MAX_RETRY_ATTEMPTS)
\* apply/validate passes and ends failed with attempt_count = n;
\* error_history holds exactly n reviewer entries, the last entry being the
\* max-retries-exceeded entry, and its length is n plus the number of
\* entries of the architect and of failed file writes.
C5_AllFailuresEndAtMaxEntries ==
    EveryValidationFailed =>
        /\ Runs("developer") = Attempts
        /\ Runs("executor") = Attempts
        /\ state.status = "failed"
        /\ state.attempt_count = Attempts
        /\ EntriesOfKind(state.error_history, {"Attempt"}) = Attempts
        /\ Len(state.error_history) = Attempts
               + EntriesOfKind(state.error_history,
                    {CloneFailed.kind, FileScanFailed.kind,
                     LLMAnalysisFailed.kind, WriteFailed.kind})
        /\ state.error_history[Len(state.error_history)]
               = MaxRetriesExceeded(Attempts)

\* C5 witness: scenario C, three failed validations with the bound 3, and
\* nothing else recorded.
C5_Witness ==
    /\ EveryValidationFailed
    /\ MAX_RETRY_ATTEMPTS = 3
    /\ Runs("executor") = 3
    /\ Len(state.error_history) = 3
    /\ state.status = "failed"

\* The reviewer has just decided on a passed validation, in a run whose
\* developer executions all applied their change-set.
PassJustReviewed ==
    /\ Len(trace) >= 2
    /\ trace[Len(trace)].node = "reviewer"
    /\ trace[Len(trace) - 1] = Ev("executor", "passed")
    /\ DeveloperAlwaysApplied

\* C6, as stated: when the first k validations fail and validation k+1
\* passes, 0 <= k < MAX_RETRY_ATTEMPTS, the developer succeeding each time,
\* the run retries exactly k times and then routes to the publisher with
\* attempt_count = k and len(error_history) = k.  It is stated for the runs
\* whose architect did not fail.
C6_PassAfterKFailures ==
    PassJustReviewed /\ ArchitectSucceeded =>
        /\ FailedValidations < MAX_RETRY_ATTEMPTS
        /\ Runs("developer") = FailedValidations + 1
        /\ pc = "publisher"
        /\ state.status = "publishing"
        /\ state.attempt_count = FailedValidations
        /\ Len(state.error_history) = FailedValidations

\* C6, amended: when the first k validations fail and validation k+1
\* passes, the developer succeeding each time, then
\* k < max(1, MAX_RETRY_ATTEMPTS), the run retries exactly k times and then
\* routes to the publisher with attempt_count = k and exactly k reviewer
\* entries in error_history, whose length is k plus the number of entries
\* of the architect and of failed file writes.
C6_PassAfterKFailuresEntries ==
    PassJustReviewed =>
        /\ FailedValidations < Attempts
        /\ Runs("developer") = FailedValidations + 1
        /\ pc = "publisher"
        /\ state.status = "publishing"
        /\ state.attempt_count = FailedValidations
        /\ EntriesOfKind(state.error_history, {"Attempt"}) = FailedValidations
        /\ Len(state.error_history) = FailedValidations
               + EntriesOfKind(state.error_history,
                    {CloneFailed.kind, FileScanFailed.kind,
                     LLMAnalysisFailed.kind, WriteFailed.kind})

\* C6 witness: scenario B, exit codes [1, 1, 0] with the bound 3.
C6_Witness ==
    /\ PassJustReviewed
    /\ MAX_RETRY_ATTEMPTS = 3
    /\ FailedValidations = 2
    /\ state.attempt_count = 2
    /\ Len(state.error_history) = 2
    /\ pc = "publisher"

\* C7, as stated: every run terminates with status completed or failed, and
\* the developer executes at most MAX_RETRY_ATTEMPTS times in one run.
C7_RunTerminates ==
    /\ <>(pc \in Terminal /\ state.status \in {"completed", "failed"})
    /\ [](Runs("developer") <= MAX_RETRY_ATTEMPTS)

\* C7, amended: every run terminates with status completed or failed, and
\* the developer executes at most max(1, MAX_RETRY_ATTEMPTS) times in one
\* run: once also when the limit is configured below 1.
C7_RunTerminatesWithinAttempts ==
    /\ <>(pc \in Terminal /\ state.status \in {"completed", "failed"})
    /\ [](Runs("developer") <= Attempts)

\* C7 witness: a run that has ended after the developer ran
\* MAX_RETRY_ATTEMPTS = 3 times.
C7_Witness ==
    /\ pc = "END"
    /\ MAX_RETRY_ATTEMPTS = 3
    /\ Runs("developer") = 3
    /\ state.status = "failed"

\* C8: the architect runs once and first, then developer, executor and
\* reviewer repeat in this order; the publisher runs at most once, only
\* directly after a reviewer whose latest test_exit_code is 0; so status
\* completed implies test_exit_code = 0 and at least one validation.
C8_StagesInOrder ==
    /\ \A i \in 1..Len(trace) :
          LET node == trace[i].node
              prev == IF i = 1 THEN "START" ELSE trace[i - 1].node
          IN  /\ (i = 1) <=> (node = "architect")
              /\ node = "developer" => prev \in {"architect", "reviewer"}
              /\ node = "executor"  => prev = "developer"
              /\ node = "reviewer"  => prev = "executor"
              /\ node = "publisher" => /\ prev = "reviewer"
                                      /\ i = Len(trace)
                                      /\ trace[i - 2] = Ev("executor", "passed")
              /\ i > 1 => trace[i - 1].how # "raised"
    /\ pc = "publisher" => state.test_exit_code = 0
    /\ state.status = "completed" =>
          /\ state.test_exit_code = 0
          /\ Runs("executor") >= 1
          /\ Runs("publisher") = 1

\* C8 witness: a completed run that went through one retry.
C8_Witness ==
    /\ state.status = "completed"
    /\ Runs("publisher") = 1
    /\ Runs("developer") = 2
    /\ pc = "END"

\* C9: when the clone fails, the run goes directly to failed and stops: no
\* other stage executes after the architect and no retry is counted.
C9_CloneFailureStops ==
    (pc # "raised" /\ \E i \in 1..Len(state.error_history) :
                          state.error_history[i] = CloneFailed)
    => /\ trace = <<Ev("architect", "returned")>>
       /\ state.status = "failed"
       /\ state.attempt_count = 0

\* The moves of status that the lifecycle allows.
StatusEdges ==
    { <<"initialized", "analyzing">>, <<"analyzing", "developing">>,
      <<"developing", "testing">>, <<"testing", "developing">>,
      <<"testing", "publishing">>, <<"testing", "failed">>,
      <<"publishing", "completed">>, <<"publishing", "failed">> }

\* The statuses reached from `from` along one or more allowed moves.
RECURSIVE ReachedFrom(_, _)
ReachedFrom(from, n) ==
    IF n = 0 THEN {from}
    ELSE LET near == ReachedFrom(from, n - 1)
         IN  near \cup {e[2] : e \in {d \in StatusEdges : d[1] \in near}}

\* C10: status only moves forward along the lifecycle; completed and failed
\* are absorbing.  (One node execution may take several moves, as the
\* architect does, or none.)
C10_StatusMovesForward ==
    [][state'.status \in ReachedFrom(state.status, Cardinality(Statuses))]_vars

C12_AtMaxOnlyFailed ==
    [][/\ MAX_RETRY_ATTEMPTS >= 1
       /\ ArchitectSucceeded
       /\ state.attempt_count = MAX_RETRY_ATTEMPTS
       => state'.status \notin {"developing", "testing", "publishing", "completed"}]_vars

\* The developer of the latest attempt extracted no change from the
\* response, and the reviewer has decided on that attempt.
UnparsedAttemptReviewed ==
    LET n == Len(trace) IN
    /\ n >= 4
    /\ trace[n].node = "reviewer"
    /\ trace[n - 2] = Ev("developer", "gave up")
    /\ \E i \in 1..Len(state.error_history) :
          /\ state.error_history[i] = DevParseFailed
          /\ \A j \in (i + 1)..Len(state.error_history) :
                state.error_history[j].kind = "Attempt"

\* C13: a change-set from which no change can be extracted consumes exactly
\* one unit of the attempt budget and leads to a retry or to failed; the run
\* does not reach the publisher in that attempt.  The unit is stated for the
\* first attempt of a run, whose budget starts at 0; both parts for the runs
\* whose architect did not fail.
C13_UnparsedChangeSetCountsOnce ==
    UnparsedAttemptReviewed /\ ArchitectSucceeded =>
        /\ pc # "publisher"
        /\ state.status \in {"developing", "failed"}
        /\ Len(trace) = 4 => state.attempt_count = 1

\* The entries that developer_node appended to error_history in the call
\* the trace records.
AppendedEntries ==
    SubSeq(state.error_history, Len(trace[1].before.error_history) + 1,
           Len(state.error_history))

\* C14: for every generator payload developer_node returns a state and does
\* not raise; the layers run in the order strict parse, cleanup and strict
\* re-parse, pattern extraction; the pattern extraction runs only after both
\* strict parses failed; when it yields at least one path/content pair the
\* changes go to the apply loop (no generation failure is recorded and the
\* status becomes testing), otherwise the failure is recorded in
\* error_history.
C14_PayloadNeverRaises ==
    (trace # <<>> /\ trace[1].answered) =>
        LET resp   == trace[1].response
            layers == parse_layers(resp)
            tried  == layers.tried
        IN  /\ pc = "END"
            /\ trace[1].how \in {"applied", "gave up"}
            /\ IsPrefix(tried, <<"strict", "cleanup", "pattern">>)
            /\ (\E i \in 1..Len(tried) : tried[i] = "pattern")
                   => ~resp.strict /\ ~resp.cleaned
            /\ (layers.payload = "pattern") <=>
                   (resp.json_match /\ ~resp.strict /\ ~resp.cleaned /\ resp.pairs >= 1)
            /\ layers.payload = "pattern" =>
                   /\ trace[1].how = "applied"
                   /\ state.status = "testing"
                   /\ state.attempt_count = trace[1].before.attempt_count
                   /\ \A i \in 1..Len(AppendedEntries) : AppendedEntries[i] = WriteFailed
                   /\ Len(state.changes_made) - Len(trace[1].before.changes_made)
                          = Cardinality({i \in 1..resp.pairs : trace[1].env.writes[i] = "ok"})
            /\ (resp.json_match /\ ~resp.strict /\ ~resp.cleaned /\ resp.pairs = 0) =>
                   /\ trace[1].how = "gave up"
                   /\ AppendedEntries = <<DevParseFailed>>
                   /\ state.changes_made = trace[1].before.changes_made

\* C14 witness: a response that neither strict parse accepts and from which
\* the patterns extract two pairs, both written.
C14_Witness ==
    /\ trace # <<>>
    /\ trace[1].answered
    /\ trace[1].response = [json_match |-> TRUE, strict |-> FALSE,
                            cleaned |-> FALSE, pairs |-> 2]
    /\ trace[1].env.writes = <<"ok", "ok">>
    /\ state.status = "testing"
    /\ Len(state.changes_made) = Len(trace[1].before.changes_made) + 2

\* C15: after DockerSandbox.execute has finished, on any path (the container
\* exits with code 0 or not, the wait times out, or wait, kill, logs or
\* remove raises), no container created by the call still exists.
\* It is stated for the calls whose containers.run returned the container.
C15_NoContainerLeft ==
    (pc \in {"returned", "raised"} /\ trace[1].env.ensure_image = "ok"
        /\ trace[1].env.run = "ok") => NewContainer \notin state.containers

\* C16: when the wait times out, execute kills the container and returns
\* (it does not raise) an ExecutionResult with timed_out = true and
\* exit_code = -1, and the container has been removed.
C16_TimeoutReturnsResult ==
    (pc \in {"returned", "raised"} /\ trace[1].env.ensure_image = "ok"
        /\ trace[1].env.run = "ok" /\ trace[1].env.wait = "timeout") =>
       /\ pc = "returned"
       /\ trace[1].result.timed_out
       /\ trace[1].result.exit_code = -1
       /\ NewContainer \notin state.containers

\* The sub-steps of the executor_node call of the trace ran: the workspace
\* exists, Docker is available and no sandbox call raised.
SubStepsRan ==
    /\ trace # <<>>
    /\ trace[1].before.local_path # ""
    /\ trace[1].env.path_exists
    /\ trace[1].env.docker = "ok"
    /\ trace[1].env.exc = "none"

\* C17: for every triple of exit codes (syntax, tests, lint) the
\* test_exit_code executor_node returns is 1 when the syntax check is
\* non-zero, otherwise exactly the exit code of the test suite, whatever the
\* exit code of the linter.
C17_SyntaxThenTestsExitCode ==
    (pc = "reviewer" /\ SubStepsRan) =>
        state.test_exit_code =
            (IF trace[1].env.syntax # 0 THEN 1 ELSE trace[1].env.tests)

\* The isolation runtime was unavailable during the executor_node call of
\* the trace: Docker could not be reached or initialised, or a sandbox call
\* of a sub-step raised (a credential error or another API error).
RuntimeUnavailable ==
    /\ trace # <<>>
    /\ trace[1].before.local_path # ""
    /\ trace[1].env.path_exists
    /\ \/ trace[1].env.docker \in {"unavailable", "raise"}
       \/ trace[1].env.docker = "ok" /\ trace[1].env.exc # "none"

\* C18: whenever the isolation runtime is unavailable, executor_node returns
\* test_exit_code 0 with a transcript that explains the skip, and the
\* reviewer sends the run to the publisher without counting an attempt.
C18_UnavailableSandboxPasses ==
    /\ (pc = "reviewer" /\ RuntimeUnavailable) =>
          /\ state.test_exit_code = 0
          /\ state.test_output \in
                {<<"Docker unavailable. Skipping tests - proceeding to publish.">>,
                 <<"Docker initialization failed. Skipping tests.">>,
                 <<"Docker credentials error - skipping tests. Code changes are ready.">>}
    /\ (Len(trace) = 2 /\ RuntimeUnavailable) =>
          /\ pc = "publisher"
          /\ state.status = "publishing"
          /\ state.attempt_count = trace[1].before.attempt_count

\* The syntax check or the test run of the executor_node call of the trace
\* timed out (exit code -1).
SubStepTimedOut ==
    /\ SubStepsRan
    /\ trace[1].env.syntax = -1 \/ trace[1].env.tests = -1

\* C19: when the syntax check or the test run times out, executor_node
\* returns a non-zero test_exit_code, and the reviewer does not send that
\* attempt to the publisher: it retries or fails the run, counting the
\* attempt.
C19_TimeoutIsAFailure ==
    /\ (pc = "reviewer" /\ SubStepTimedOut) =>
          /\ state.test_exit_code # 0
          /\ state.status = "testing"
    /\ (Len(trace) = 2 /\ SubStepTimedOut) =>
          /\ pc \in {"developer", "END"}
          /\ state.status \in {"developing", "failed"}
          /\ state.attempt_count = trace[1].before.attempt_count + 1

\* C19 witness: the test run timed out after a clean syntax check, and the
\* reviewer sent the run back to the developer.
C19_Witness ==
    /\ Len(trace) = 2
    /\ SubStepTimedOut
    /\ trace[1].env.syntax = 0
    /\ trace[1].env.tests = -1
    /\ pc = "developer"
    /\ state.test_exit_code = -1

\* The number of entries of the change-set whose write had the outcome.
WritesWith(outcome) ==
    Cardinality({i \in 1..Len(trace[1].env.writes) : trace[1].env.writes[i] = outcome})

\* C20: in a developer_node call that applies a change-set, a failed write
\* does not keep the other files (the test file included) from being
\* written, and every failed write, of a change file or of the test file,
\* appends an entry of its own to error_history.
C20_EveryWriteFailureRecorded ==
    (trace # <<>> /\ trace[1].how = "applied") =>
        /\ Len(state.changes_made) - Len(trace[1].before.changes_made)
              = WritesWith("ok") + (IF trace[1].env.test_file = "ok" THEN 1 ELSE 0)
        /\ Len(AppendedEntries)
              = WritesWith("raise") + (IF trace[1].env.test_file = "raise" THEN 1 ELSE 0)

\* The positions of the transcript whose line passes a marker test, and
\* among them those where the stripped line occurs for the first time.
MarkerPositions ==
    {i \in 1..Len(state.test_output) : marker_hits(state.test_output[i]) > 0}

FirstSeenPositions ==
    {i \in MarkerPositions :
        \A j \in MarkerPositions :
            j < i => strip(state.test_output[j]) # strip(state.test_output[i])}

C22_FallbackAndSentinel ==
    (pc = "END" /\ MarkerPositions = {}) =>
        LET summary  == trace[1].summary
            filled   == {i \in 1..Len(state.test_output) :
                            strip(state.test_output[i]) # ""}
        IN  IF filled = {}
            THEN summary = <<"Unknown error (no output)">>
            ELSE /\ Len(summary) = (IF Cardinality(filled) < 3
                                    THEN Cardinality(filled) ELSE 3)
                 /\ \A k \in 1..Len(summary) :
                       \E i \in filled :
                          /\ Cardinality({j \in filled : j >= i}) = Len(summary) - k + 1
                          /\ summary[k] = strip(state.test_output[i])

\* The states that agree with s on test_exit_code and attempt_count and
\* take every value of the bounded sets in the other fields.
AgreeingStates(s) ==
    [ status         : Statuses,
      local_path     : {"", Workspace},
      attempt_count  : {s.attempt_count},
      error_history  : {<<>>, <<LLMAnalysisFailed>>,
                        <<AttemptEntry(1, <<"E   assert 1 == 2">>), WriteFailed>>},
      test_exit_code : {s.test_exit_code},
      test_output    : {EmptyString, <<"1 passed">>, <<"Still failing">>,
                        <<"AssertionError: Expected 5, got 3">>},
      changes_made   : {<<>>, <<"modify">>},
      pr_url         : {None} ]

\* C23: the routing output of reviewer_node (the next status, the node the
\* graph runs next and the new attempt_count) depends on test_exit_code,
\* attempt_count and MAX_RETRY_ATTEMPTS only: every state that agrees with
\* the reviewed one on these values gets the same output, whatever its
\* test_output, error_history, changes_made, status and local_path.
C23_RoutingDependsOnThreeValues ==
    [][pc = "reviewer" =>
         \A other \in AgreeingStates(state) :
            LET decided == reviewer_node(other, MAX_RETRY_ATTEMPTS) IN
            /\ decided.status = state'.status
            /\ decided.attempt_count = state'.attempt_count
            /\ _route_after_review(decided) = pc']_vars

\* C23 witness: the reviewer sent back to the developer a state whose
\* error_history had two entries while attempt_count was 0.
C23_Witness ==
    /\ pc = "developer"
    /\ state.status = "developing"
    /\ state.attempt_count = 1
    /\ Len(state.error_history) = 3
    /\ state.local_path = ""

\* C24: in every state of a run pr_url is set only if status = completed;
\* after a failure of the publisher and after run_workflow's exception
\* handler pr_url is null.
C24_PrUrlOnlyWhenCompleted ==
    /\ state.pr_url # None => state.status = "completed"
    /\ (pc \in Terminal /\ state.status = "failed") => state.pr_url = None

\* C24 witness: the publisher created the pull request; the run is completed
\* and pr_url is set.
C24_Witness ==
    /\ pc = "END"
    /\ trace[Len(trace)].node = "publisher"
    /\ state.status = "completed"
    /\ state.pr_url = PrUrl

\* The threads that were started and have not finished.
RunningTasks == {r \in Requests : state.task[r] \in {"running", "returned"}}

\* C25: at most one job runs at a time: whatever the interleaving of the
\* POST /run requests, no workflow thread is started while an earlier one
\* has not finished.
C25_OneJobAtATime == Cardinality(RunningTasks) <= 1

\* C26: within a job the logs that GET /status returns are append-only: of
\* two polls made during the job, the logs of the earlier one are a prefix
\* of the logs of the later one.
C26_PolledLogsGrow ==
    \A i, j \in 1..Len(trace) :
        i < j => IsPrefix(trace[i].logs, trace[j].logs)

\* C27: whenever run_workflow returns a state with status failed, the state
\* carries the full error_history of the run: the step that ends the run
\* failed keeps every entry recorded before it, in order, and the history
\* it returns is not empty; this includes the exception raised inside
\* workflow.invoke.
C27_FailedRunKeepsHistory ==
    [][(pc' \in Terminal /\ state'.status = "failed") =>
          /\ IsPrefix(state.error_history, state'.error_history)
          /\ state'.error_history # <<>>]_vars

\* C28: error_history is append-only across the stages of a run: for every
\* stage execution that returns, the error_history of the state the stage
\* received is a prefix of that of the state it returns.
C28_HistoryAppendOnly ==
    [][pc' # "raised" => IsPrefix(state.error_history, state'.error_history)]_vars

\* C28 witness: a run in which three stages recorded an entry: the architect
\* (LLM analysis failed), the developer (a failed write) and the reviewer.
C28_Witness ==
    /\ Len(state.error_history) >= 3
    /\ state.error_history[1] = LLMAnalysisFailed
    /\ state.error_history[2] = WriteFailed
    /\ state.error_history[3].kind = "Attempt"
    /\ pc = "developer"

\* The transcripts with which executor_node reports a missing workspace.
WorkspaceMissing ==
    {<<"Error: No local path in state">>,
     <<"Error: Path does not exist: workspace/repo">>}

\* C29: a missing workspace found by the executor aborts the run at once
\* with status failed and no retry: the decision that follows ends the run
\* failed, and no developer stage executes after it.  It is stated for the
\* runs whose architect did not fail.
C29_MissingWorkspaceAborts ==
    [][(pc = "reviewer" /\ ArchitectSucceeded /\ state.test_output \in WorkspaceMissing) =>
          /\ pc' = "END"
          /\ state'.status = "failed"]_vars

\* C30: a failure to create or switch to the feature branch in the architect
\* is fatal: the run ends with status failed and no developer stage executes
\* after it.
C30_BranchFailureIsFatal ==
    (trace # <<>> /\ trace[1].how = "returned" /\ trace[1].env.clone
        /\ ~trace[1].env.branch) =>
       /\ state.status = "failed"
       /\ pc = "END"
       /\ Len(trace) = 1

\* C31: in the publisher a commit failure or a push failure is fatal for
\* publishing: after either one the publisher sets status failed, records
\* the failure in error_history, creates or updates no pull request, and
\* the run ends (it does not go back to the developer).
C31_CommitOrPushFailureIsFatal ==
    (trace # <<>> /\ trace[1].how = "returned" /\ trace[1].before.local_path # ""
        /\ (trace[1].env.commit = "fail" \/ trace[1].env.push = "fail")) =>
       /\ state.status = "failed"
       /\ Len(state.error_history) = Len(trace[1].before.error_history) + 1
       /\ state.pr_url = None
       /\ pc = "END"

\* C32: push_pr is idempotent per branch: after any number of calls there
\* is at most one open pull request for a head branch and base; a call that
\* finds an open pull request for its branch updates its title and returns
\* its URL and number, and creates none.
C32_OneOpenPullPerBranch ==
    /\ \A p, q \in state.open : (p.head = q.head /\ p.base = q.base) => p = q
    /\ (trace # <<>> /\ trace[1].result.success) =>
          \A old \in get_pulls(trace[1].before, trace[1].branch_name, BaseBranch) :
             /\ trace[1].result.pr_number = old.number
             /\ trace[1].result.pr_url = PullUrl(old.number)
             /\ [old EXCEPT !.title = trace[1].title] \in state.open
             /\ state.created = trace[1].before.created

\* C32 witness: the third call for the same branch updated the pull request
\* the first call had created; it is the only open one of the branch.
C32_Witness ==
    /\ state.calls = 3
    /\ trace # <<>>
    /\ trace[1].result.message = "Updated existing PR"
    /\ trace[1].before.open = {[number |-> 1, head |-> "other-feature",
                                base |-> BaseBranch, title |-> "Add feature"]}
    /\ state.open = {[number |-> 1, head |-> "other-feature",
                      base |-> BaseBranch, title |-> "Add feature, second try"]}

\* C33: local_path is written at most once in a run, by the architect after
\* a successful clone: a stage that returns changes local_path only if it
\* is the architect, and then from the initial empty path to the clone; the
\* developer, the executor, the reviewer and the publisher return it
\* unchanged; run_workflow's exception handler writes no local_path into
\* the initial state it returns.
C33_LocalPathWrittenOnce ==
    [][/\ (pc' # "raised" /\ state'.local_path # state.local_path) =>
              /\ pc = "architect"
              /\ state.local_path = ""
              /\ state'.local_path = Workspace
       /\ pc' = "raised" => state'.local_path = create_initial_state.local_path]_vars

\* C33 witness: the run completed with the path the architect had set, after
\* a retry.
C33_Witness ==
    /\ pc = "END"
    /\ state.status = "completed"
    /\ state.local_path = Workspace
    /\ Runs("developer") = 2

\* The positions of a line in the transcript executor_node returned.
PositionsOf(line) ==
    {i \in 1..Len(state.test_output) : state.test_output[i] = line}

\* C34: whatever the exit codes of the sub-steps, the transcript
\* executor_node returns holds the section of the syntax check, of the test
\* suite and of the linter, each exactly once and in this order: a failing
\* syntax check or test suite skips no later step.
C34_ThreeSectionsInOrder ==
    (pc = "reviewer" /\ SubStepsRan) =>
        /\ PositionsOf("=== SYNTAX CHECK ===") = {1}
        /\ Cardinality(PositionsOf("=== PYTEST RESULTS ===")) = 1
        /\ Cardinality(PositionsOf("=== LINTER RESULTS ===")) = 1
        /\ \A i \in PositionsOf("=== PYTEST RESULTS ===") :
              \A j \in PositionsOf("=== LINTER RESULTS ===") : 1 < i /\ i < j
        /\ state.test_output = SyntaxSection(trace[1].env)
                                  \o PytestSection(trace[1].env)
                                  \o LintSection(trace[1].env)

\* C34 witness: the syntax check and the test suite failed and the linter
\* complained; the transcript has the three sections.
C34_Witness ==
    /\ pc = "reviewer"
    /\ SubStepsRan
    /\ trace[1].env.syntax = 1
    /\ trace[1].env.tests = 2
    /\ trace[1].env.lint = 1
    /\ Cardinality(PositionsOf("=== LINTER RESULTS ===")) = 1

\* C35: with a non-zero exit code the reviewer takes the retry path exactly
\* when attempt_count < MAX_RETRY_ATTEMPTS: for every state reviewer_node
\* routes to the developer if and only if should_retry(state) is true.
C35_RetryIffShouldRetry ==
    [][pc = "reviewer" =>
          ((pc' = "developer") <=> should_retry(state, MAX_RETRY_ATTEMPTS))]_vars

C37_PublishedRunMadeChanges ==
    (pc = "publisher" \/ state.status = "completed") => state.changes_made # <<>>

\* C38: every job accepted by POST /run ends by setting current_job.running
\* to false, and whenever current_job.running is false no workflow thread is
\* still executing, whatever the interleaving of the requests.  The state
\* predicate is the second half: running false implies that no started
\* thread is unfinished.
C38_NotRunningMeansNoThread ==
    ~state.current_job.running => RunningTasks = {}

\* C39: executor_node closes the Docker client on every exit path taken
\* after the DockerSandbox was constructed: when it returns the sandbox
\* holds no open client, also when the connection test failed and the
\* runtime was reported unavailable.
C39_ClientClosedOnReturn ==
    (pc = "returned" /\ trace[1].before.state.local_path # ""
                     /\ trace[1].env.path_exists
                     /\ trace[1].conn # "constructor")
        => state._client = None

====
